---- MODULE Spec2Model ----
(***************************************************************************)
(* Model of the MPU-6050 driver (src/mpu6050/mpu6050.py) and of the        *)
(* polling loop that uses it (src/test.py).                                *)
(*                                                                         *)
(* The driver object holds two fields, accel_range and gyro_range.  The    *)
(* device behind the bus holds its registers; regs records, for every      *)
(* register the driver writes, the last value a bus write stored there.    *)
(* Every bus transaction either succeeds or raises OSError; which of the   *)
(* two happens, and which byte a read returns, is chosen by the            *)
(* environment.  lastOp records what the last driver operation did: the    *)
(* bus transactions it issued, in order, and how it ended.  The driver is  *)
(* synchronous and single-threaded: a call runs to its end, the caller     *)
(* takes the result (Return), and only then the next call starts.          *)
(*                                                                         *)
(* Python values: None is <<>>, a number n is <<n>> (an Optional), so      *)
(* that a missing value and the number 0 are different values.             *)
(*                                                                         *)
(* Floating-point results are kept as exact integers in a fixed unit:      *)
(*   acceleration  in units of 9.80665/16384 m/s^2  (one LSB at 2g)        *)
(*   angular rate  in units of 1/21484 deg/s                               *)
(*   temperature   in units of 1/34000 degree Celsius                      *)
(***************************************************************************)
EXTENDS Integers, Sequences, FiniteSets, TLC

VARIABLES
    phase,        \* "new": not constructed; "ready": constructed; "failed": __init__ raised
    accel_range,  \* self.accel_range
    gyro_range,   \* self.gyro_range
    regs,         \* device side: register -> Optional value last written successfully
    last_set,     \* history: ranges of the last set-range calls that returned normally
    lastOp        \* the operation in progress or just done: transactions issued and outcome

vars == <<phase, accel_range, gyro_range, regs, last_set, lastOp>>

---------------------------------------------------------------------------
(* Python values *)

None == <<>>

Some(v) == <<v>>

\* dict.get(key): the value, or None when the key is missing
DictGet(map, key) == IF key \in DOMAIN map THEN Some(map[key]) ELSE None

\* the value of a field that has not been assigned yet
Unset == "unset"

---------------------------------------------------------------------------
(* Bounds of the model *)

\* calculate_angle is applied to vectors with components in
\* -MaxComponent..MaxComponent (or None)
MaxComponent == 1

\* the bytes the bus returns for the reads of the vector operations
BusBytes == {0, 255}

\* what one bus read does: raise OSError (None) or return a byte
BusReads == {None} \cup {Some(b) : b \in BusBytes}

\* all values of a byte
Byte == 0..255

---------------------------------------------------------------------------
(* Class constants, mpu6050.py lines 19-90 *)

ACCEL_SCALE_MAP ==
    ("2g" :> 16384) @@ ("4g" :> 8192) @@ ("8g" :> 4096) @@ ("16g" :> 2048)

\* the gyro divisors 131.0, 65.5, 32.8, 16.4, each multiplied by 10
GYRO_SCALE_MAP ==
    ("250deg" :> 1310) @@ ("500deg" :> 655) @@ ("1000deg" :> 328) @@ ("2000deg" :> 164)

ACCEL_RANGE_MAP ==
    ("2g" :> 0) @@ ("4g" :> 8) @@ ("8g" :> 16) @@ ("16g" :> 24)

GYRO_RANGE_MAP ==
    ("250deg" :> 0) @@ ("500deg" :> 8) @@ ("1000deg" :> 16) @@ ("2000deg" :> 24)

PWR_MGMT_1 == 107

ACCEL_XOUTH == 59

ACCEL_YOUTH == 61

ACCEL_ZOUTH == 63

TEMP_OUTH == 65

GYRO_XOUTH == 67

GYRO_YOUTH == 69

GYRO_ZOUTH == 71

ACCEL_CONFIG == 28

GYRO_CONFIG == 27

\* the range arguments the set-range operations are called with: the four
\* supported values of each sub-sensor and values that are not supported
RangeArgs ==
    DOMAIN ACCEL_RANGE_MAP \cup DOMAIN GYRO_RANGE_MAP \cup {"32g", ""}

\* the registers read_i2c_word is called with
WordRegisters == {ACCEL_XOUTH, TEMP_OUTH, GYRO_ZOUTH}

---------------------------------------------------------------------------
(* The bus *)

\* one write_byte_data(address, reg, val) and whether it returned (ok) or
\* raised OSError
Wr(reg, val, ok) == [reg |-> reg, val |-> val, ok |-> ok]

\* one read_byte_data(address, reg) and what it did: resp is None when it
\* raised OSError, Some(byte) when it returned
Rd(reg, resp) == [reg |-> reg, resp |-> resp]

\* the device's registers after a sequence of writes: a write that
\* succeeded stores its value, a write that failed stores nothing
RECURSIVE ApplyWrites(_, _)
ApplyWrites(r, writes) ==
    IF writes = <<>> THEN r
    ELSE LET w == Head(writes)
             r1 == IF w.ok THEN [r EXCEPT ![w.reg] = Some(w.val)] ELSE r
         IN  ApplyWrites(r1, Tail(writes))

---------------------------------------------------------------------------
(* The driver's methods.  Each operator computes what one call does, given *)
(* what the bus does to the transactions the call issues.                  *)

\* set_accel_range with the range stored before the second write
set_accel_range_store_early(arg, cur, w1, w2) ==
    IF DictGet(ACCEL_RANGE_MAP, arg) = None
    THEN [outcome |-> "ValueError", writes |-> <<>>, stored |-> cur]
    ELSE IF ~w1
    THEN [outcome |-> "OSError",
          writes  |-> <<Wr(ACCEL_CONFIG, 0, FALSE)>>,
          stored  |-> cur]
    ELSE [outcome |-> IF w2 THEN "ok" ELSE "OSError",
          writes  |-> <<Wr(ACCEL_CONFIG, 0, TRUE),
                        Wr(ACCEL_CONFIG, DictGet(ACCEL_RANGE_MAP, arg)[1], w2)>>,
          stored  |-> arg]

\* set_accel_range with the validity test written "if not MAP.get(range)"
set_accel_range_truthy(arg, cur, w1, w2) ==
    IF DictGet(ACCEL_RANGE_MAP, arg) \in {None, Some(0)}
    THEN [outcome |-> "ValueError", writes |-> <<>>, stored |-> cur]
    ELSE [outcome |-> IF w1 /\ w2 THEN "ok" ELSE "OSError",
          writes  |-> IF w1
                      THEN <<Wr(ACCEL_CONFIG, 0, TRUE),
                             Wr(ACCEL_CONFIG, DictGet(ACCEL_RANGE_MAP, arg)[1], w2)>>
                      ELSE <<Wr(ACCEL_CONFIG, 0, FALSE)>>,
          stored  |-> IF w1 /\ w2 THEN arg ELSE cur]

\* set_accel_range(accel_range), lines 145-162.  cur is self.accel_range
\* before the call; w1, w2 tell whether the first and the second
\* write_byte_data would return (TRUE) or raise OSError (FALSE).
set_accel_range(arg, cur, w1, w2) ==
    IF DictGet(ACCEL_RANGE_MAP, arg) = None
    THEN [outcome |-> "ValueError", writes |-> <<>>, stored |-> cur]
    ELSE IF ~w1
    THEN [outcome |-> "OSError",
          writes  |-> <<Wr(ACCEL_CONFIG, 0, FALSE)>>,
          stored  |-> cur]
    ELSE IF ~w2
    THEN [outcome |-> "OSError",
          writes  |-> <<Wr(ACCEL_CONFIG, 0, TRUE),
                        Wr(ACCEL_CONFIG, DictGet(ACCEL_RANGE_MAP, arg)[1], FALSE)>>,
          stored  |-> cur]
    ELSE [outcome |-> "ok",
          writes  |-> <<Wr(ACCEL_CONFIG, 0, TRUE),
                        Wr(ACCEL_CONFIG, DictGet(ACCEL_RANGE_MAP, arg)[1], TRUE)>>,
          stored  |-> arg]

\* set_gyro_range(gyro_range), lines 194-211
set_gyro_range(arg, cur, w1, w2) ==
    IF DictGet(GYRO_RANGE_MAP, arg) = None
    THEN [outcome |-> "ValueError", writes |-> <<>>, stored |-> cur]
    ELSE IF ~w1
    THEN [outcome |-> "OSError",
          writes  |-> <<Wr(GYRO_CONFIG, 0, FALSE)>>,
          stored  |-> cur]
    ELSE IF ~w2
    THEN [outcome |-> "OSError",
          writes  |-> <<Wr(GYRO_CONFIG, 0, TRUE),
                        Wr(GYRO_CONFIG, DictGet(GYRO_RANGE_MAP, arg)[1], FALSE)>>,
          stored  |-> cur]
    ELSE [outcome |-> "ok",
          writes  |-> <<Wr(GYRO_CONFIG, 0, TRUE),
                        Wr(GYRO_CONFIG, DictGet(GYRO_RANGE_MAP, arg)[1], TRUE)>>,
          stored  |-> arg]

\* __init__ with the wake-up write's failure swallowed
mpu6050_init_ignores_wake(w0, w1, w2, w3, w4) ==
    LET wake == Wr(PWR_MGMT_1, 0, w0)
        a    == [outcome |-> IF w1 /\ w2 THEN "ok" ELSE "OSError",
                 writes  |-> IF w1
                             THEN <<Wr(ACCEL_CONFIG, 0, TRUE), Wr(ACCEL_CONFIG, 8, w2)>>
                             ELSE <<Wr(ACCEL_CONFIG, 0, FALSE)>>]
        g    == [outcome |-> IF w3 /\ w4 THEN "ok" ELSE "OSError",
                 writes  |-> IF w3
                             THEN <<Wr(GYRO_CONFIG, 0, TRUE), Wr(GYRO_CONFIG, 8, w4)>>
                             ELSE <<Wr(GYRO_CONFIG, 0, FALSE)>>]
    IN  IF a.outcome # "ok"
        THEN [outcome |-> a.outcome, writes |-> <<wake>> \o a.writes,
              accel |-> Unset, gyro |-> Unset]
        ELSE IF g.outcome # "ok"
        THEN [outcome |-> g.outcome, writes |-> <<wake>> \o a.writes \o g.writes,
              accel |-> Unset, gyro |-> Unset]
        ELSE [outcome |-> "ok", writes |-> <<wake>> \o a.writes \o g.writes,
              accel |-> "4g", gyro |-> "500deg"]

\* __init__(address, bus), lines 92-102.  w0 is the wake-up write, w1, w2
\* the writes of set_accel_range('4g'), w3, w4 those of
\* set_gyro_range('500deg').  An exception leaves no object behind.
mpu6050_init(w0, w1, w2, w3, w4) ==
    LET wake == Wr(PWR_MGMT_1, 0, w0)
        a    == set_accel_range("4g", Unset, w1, w2)
        g    == set_gyro_range("500deg", Unset, w3, w4)
    IN  IF ~w0
        THEN [outcome |-> "OSError", writes |-> <<wake>>,
              accel |-> Unset, gyro |-> Unset]
        ELSE IF a.outcome # "ok"
        THEN [outcome |-> a.outcome, writes |-> <<wake>> \o a.writes,
              accel |-> Unset, gyro |-> Unset]
        ELSE IF g.outcome # "ok"
        THEN [outcome |-> g.outcome, writes |-> <<wake>> \o a.writes \o g.writes,
              accel |-> Unset, gyro |-> Unset]
        ELSE [outcome |-> "ok", writes |-> <<wake>> \o a.writes \o g.writes,
              accel |-> a.stored, gyro |-> g.stored]

\* the sign correction with the test written "value > 0x8000"
Signed16_off_by_one(high, low) ==
    LET value == (high * 256) + low
    IN  IF value > 32768 THEN -((65535 - value) + 1) ELSE value

\* the sign correction of read_i2c_word, lines 122-127
Signed16(high, low) ==
    LET value == (high * 256) + low
    IN  IF value >= 32768 THEN -((65535 - value) + 1) ELSE value

\* read_i2c_word with a failed low-byte read taken as the byte 0
read_i2c_word_low_default(register, hi, lo) ==
    IF hi = None
    THEN [outcome |-> "ok", result |-> None,
          reads   |-> <<Rd(register, None)>>]
    ELSE [outcome |-> "ok",
          result  |-> Some(Signed16(hi[1], IF lo = None THEN 0 ELSE lo[1])),
          reads   |-> <<Rd(register, hi), Rd(register + 1, lo)>>]

\* read_i2c_word(register), lines 104-127.  hi and lo are what the bus does
\* to the first and to the second read_byte_data: None (OSError) or a byte.
read_i2c_word(register, hi, lo) ==
    IF hi = None
    THEN [outcome |-> "ok", result |-> None,
          reads   |-> <<Rd(register, None)>>]
    ELSE IF lo = None
    THEN [outcome |-> "ok", result |-> None,
          reads   |-> <<Rd(register, hi), Rd(register + 1, None)>>]
    ELSE [outcome |-> "ok", result |-> Some(Signed16(hi[1], lo[1])),
          reads   |-> <<Rd(register, hi), Rd(register + 1, lo)>>]

\* get_temp(), lines 129-143: None / 340.0 raises TypeError; otherwise
\* raw/340.0 + 36.53, in units of 1/34000 degree
get_temp(hi, lo) ==
    LET w == read_i2c_word(TEMP_OUTH, hi, lo)
    IN  IF w.result = None
        THEN [outcome |-> "TypeError", value |-> None, word |-> w]
        ELSE [outcome |-> "ok",
              value   |-> Some((100 * w.result[1]) + 1242020),
              word    |-> w]

\* a vector of three Optional numbers
Vec(x, y, z) == [x |-> x, y |-> y, z |-> z]

\* get_accel_data converting each axis on its own: a failed axis is None and
\* the other axes are numbers
get_accel_data_per_axis(range, b) ==
    LET wx  == read_i2c_word(ACCEL_XOUTH, b[1], b[2])
        wy  == read_i2c_word(ACCEL_YOUTH, b[3], b[4])
        wz  == read_i2c_word(ACCEL_ZOUTH, b[5], b[6])
        k   == 16384 \div ACCEL_SCALE_MAP[range]
        c(w) == IF w.result = None THEN None ELSE Some(w.result[1] * k)
    IN  [outcome |-> "ok",
         xyz     |-> Vec(c(wx), c(wy), c(wz)),
         reads   |-> wx.reads \o wy.reads \o wz.reads]

\* get_accel_data(), lines 164-181.  b is the sequence of the six bus read
\* behaviours (high and low byte of X, Y, Z).  All three words are read
\* before the conversion; the conversion raises TypeError on the first None
\* and the handler replaces the whole list, so the call always returns.
\* i/scale*9.80665 in units of 9.80665/16384 is i*(16384/scale).
get_accel_data(range, b) ==
    LET wx  == read_i2c_word(ACCEL_XOUTH, b[1], b[2])
        wy  == read_i2c_word(ACCEL_YOUTH, b[3], b[4])
        wz  == read_i2c_word(ACCEL_ZOUTH, b[5], b[6])
        k   == 16384 \div ACCEL_SCALE_MAP[range]
        rds == wx.reads \o wy.reads \o wz.reads
    IN  IF wx.result = None \/ wy.result = None \/ wz.result = None
        THEN [outcome |-> "ok", xyz |-> Vec(None, None, None), reads |-> rds]
        ELSE [outcome |-> "ok",
              xyz     |-> Vec(Some(wx.result[1] * k), Some(wy.result[1] * k),
                              Some(wz.result[1] * k)),
              reads   |-> rds]

\* get_gyro_data(), lines 213-227.
\* i/scale in units of 1/21484 deg/s is i*(214840/(10*scale)).
get_gyro_data(range, b) ==
    LET wx  == read_i2c_word(GYRO_XOUTH, b[1], b[2])
        wy  == read_i2c_word(GYRO_YOUTH, b[3], b[4])
        wz  == read_i2c_word(GYRO_ZOUTH, b[5], b[6])
        k   == 214840 \div GYRO_SCALE_MAP[range]
        rds == wx.reads \o wy.reads \o wz.reads
    IN  IF wx.result = None \/ wy.result = None \/ wz.result = None
        THEN [outcome |-> "ok", xyz |-> Vec(None, None, None), reads |-> rds]
        ELSE [outcome |-> "ok",
              xyz     |-> Vec(Some(wx.result[1] * k), Some(wy.result[1] * k),
                              Some(wz.result[1] * k)),
              reads   |-> rds]

\* the number acos(num/sqrt(den_sq))*180/pi, kept as its cosine
Angle(num, den_sq) == [cos_num |-> num, cos_den_sq |-> den_sq]

\* calculate_angle(xyz), lines 183-192.
\*   a None component: None**2 raises TypeError, caught, angle is None;
\*   x**2+y**2+z**2 = 0: sqrt gives 0.0 and y/0.0 raises ZeroDivisionError,
\*     which the except clause (ValueError, TypeError) does not catch;
\*   |y/sqrt(..)| > 1, that is y**2 > x**2+y**2+z**2: acos raises
\*     ValueError, caught, angle is None.
calculate_angle(xyz) ==
    IF xyz.x = None \/ xyz.y = None \/ xyz.z = None
    THEN [outcome |-> "ok", angle |-> None]
    ELSE LET x  == xyz.x[1]
             y  == xyz.y[1]
             z  == xyz.z[1]
             ss == (x * x) + (y * y) + (z * z)
         IN  IF ss = 0
             THEN [outcome |-> "ZeroDivisionError", angle |-> None]
             ELSE IF y * y > ss
             THEN [outcome |-> "ok", angle |-> None]
             ELSE [outcome |-> "ok", angle |-> Some(Angle(y, ss))]

---------------------------------------------------------------------------
(* The state machine: one action per driver operation *)

NoVec == Vec(None, None, None)

NoWord == [outcome |-> "ok", result |-> None, reads |-> <<>>]

\* the record of an operation; every action fills in the fields it has
Op(name) ==
    [name         |-> name,
     arg          |-> "",         \* the range argument of a set-range call
     register     |-> 0,          \* the register argument of read_i2c_word
     xyz_in       |-> NoVec,      \* the argument of calculate_angle
     outcome      |-> "ok",       \* "ok": returned; otherwise the exception raised
     value        |-> None,       \* the number returned (read_i2c_word, get_temp)
     word         |-> NoWord,     \* get_temp: what its read_i2c_word call did
     xyz          |-> NoVec,      \* the vector returned (get_accel_data, get_gyro_data)
     angle        |-> None,       \* the angle returned (calculate_angle)
     writes       |-> <<>>,       \* the bus writes issued, in order
     reads        |-> <<>>,       \* the bus reads issued, in order
     accel_before |-> accel_range,  \* the state when the call started
     gyro_before  |-> gyro_range,
     regs_before  |-> regs]

\* the registers the driver writes
ConfigRegisters == {PWR_MGMT_1, ACCEL_CONFIG, GYRO_CONFIG}

\* the vectors calculate_angle is applied to
Components == {None} \cup {Some(n) : n \in (0 - MaxComponent)..MaxComponent}

\* no call in progress
Idle ==
    [Op("none") EXCEPT !.accel_before = Unset,
                       !.gyro_before = Unset,
                       !.regs_before = [r \in ConfigRegisters |-> None]]

Init ==
    /\ phase = "new"
    /\ accel_range = Unset
    /\ gyro_range = Unset
    /\ regs = [r \in ConfigRegisters |-> None]
    /\ last_set = [accel |-> Unset, gyro |-> Unset]
    /\ lastOp = Idle

\* sensor = mpu6050(0x68), test.py line 8
Construct ==
    /\ phase = "new"
    /\ \E w0, w1, w2, w3, w4 \in BOOLEAN :
         LET r == mpu6050_init(w0, w1, w2, w3, w4)
         IN  /\ phase' = IF r.outcome = "ok" THEN "ready" ELSE "failed"
             /\ accel_range' = r.accel
             /\ gyro_range' = r.gyro
             /\ regs' = ApplyWrites(regs, r.writes)
             /\ last_set' = IF r.outcome = "ok"
                            THEN [accel |-> "4g", gyro |-> "500deg"]
                            ELSE last_set
             /\ lastOp' = [Op("__init__") EXCEPT !.outcome = r.outcome,
                                                 !.writes = r.writes]

SetAccelRange ==
    /\ phase = "ready"
    /\ lastOp = Idle
    /\ \E arg \in RangeArgs, w1, w2 \in BOOLEAN :
         LET r == set_accel_range(arg, accel_range, w1, w2)
         IN  /\ accel_range' = r.stored
             /\ regs' = ApplyWrites(regs, r.writes)
             /\ last_set' = IF r.outcome = "ok"
                            THEN [last_set EXCEPT !.accel = arg]
                            ELSE last_set
             /\ lastOp' = [Op("set_accel_range") EXCEPT !.arg = arg,
                                                        !.outcome = r.outcome,
                                                        !.writes = r.writes]
    /\ UNCHANGED <<phase, gyro_range>>

SetGyroRange ==
    /\ phase = "ready"
    /\ lastOp = Idle
    /\ \E arg \in RangeArgs, w1, w2 \in BOOLEAN :
         LET r == set_gyro_range(arg, gyro_range, w1, w2)
         IN  /\ gyro_range' = r.stored
             /\ regs' = ApplyWrites(regs, r.writes)
             /\ last_set' = IF r.outcome = "ok"
                            THEN [last_set EXCEPT !.gyro = arg]
                            ELSE last_set
             /\ lastOp' = [Op("set_gyro_range") EXCEPT !.arg = arg,
                                                       !.outcome = r.outcome,
                                                       !.writes = r.writes]
    /\ UNCHANGED <<phase, accel_range>>

\* a read operation that puts the accelerometer range back to its default
ReadFrame_resets_range ==
    /\ accel_range' = "4g"
    /\ UNCHANGED <<phase, gyro_range, regs, last_set>>

\* what the read operations leave alone: the driver's fields and the device's
\* configuration (they issue no write)
ReadFrame == UNCHANGED <<phase, accel_range, gyro_range, regs, last_set>>

ReadWord ==
    /\ phase = "ready"
    /\ lastOp = Idle
    /\ \E register \in WordRegisters, hi, lo \in BusReads :
         LET r == read_i2c_word(register, hi, lo)
         IN  lastOp' = [Op("read_i2c_word") EXCEPT !.register = register,
                                                   !.outcome = r.outcome,
                                                   !.value = r.result,
                                                   !.reads = r.reads]
    /\ ReadFrame

GetTemp ==
    /\ phase = "ready"
    /\ lastOp = Idle
    /\ \E hi, lo \in BusReads :
         LET r == get_temp(hi, lo)
         IN  lastOp' = [Op("get_temp") EXCEPT !.outcome = r.outcome,
                                              !.value = r.value,
                                              !.word = r.word,
                                              !.reads = r.word.reads]
    /\ ReadFrame

GetAccelData ==
    /\ phase = "ready"
    /\ lastOp = Idle
    /\ \E b \in [1..6 -> BusReads] :
         LET r == get_accel_data(accel_range, b)
         IN  lastOp' = [Op("get_accel_data") EXCEPT !.outcome = r.outcome,
                                                    !.xyz = r.xyz,
                                                    !.reads = r.reads]
    /\ ReadFrame

GetGyroData ==
    /\ phase = "ready"
    /\ lastOp = Idle
    /\ \E b \in [1..6 -> BusReads] :
         LET r == get_gyro_data(gyro_range, b)
         IN  lastOp' = [Op("get_gyro_data") EXCEPT !.outcome = r.outcome,
                                                   !.xyz = r.xyz,
                                                   !.reads = r.reads]
    /\ ReadFrame

CalculateAngle ==
    /\ phase = "ready"
    /\ lastOp = Idle
    /\ \E x, y, z \in Components :
         LET r == calculate_angle(Vec(x, y, z))
         IN  lastOp' = [Op("calculate_angle") EXCEPT !.xyz_in = Vec(x, y, z),
                                                     !.outcome = r.outcome,
                                                     !.angle = r.angle]
    /\ ReadFrame

\* one iteration of the loop of test.py, lines 10-22: get_accel_data, then
\* calculate_angle on its result.  Only KeyboardInterrupt is caught, so an
\* exception of calculate_angle ends the iteration (and the program).
PollIteration ==
    /\ phase = "ready"
    /\ lastOp = Idle
    /\ \E b \in [1..6 -> BusReads] :
         LET d == get_accel_data(accel_range, b)
             r == calculate_angle(d.xyz)
         IN  lastOp' = [Op("poll") EXCEPT !.xyz = d.xyz,
                                          !.xyz_in = d.xyz,
                                          !.reads = d.reads,
                                          !.outcome = r.outcome,
                                          !.angle = r.angle]
    /\ ReadFrame

\* the call has returned (or raised) and the caller has taken the result:
\* the next statement of the caller can run
Return ==
    /\ phase = "ready"
    /\ lastOp # Idle
    /\ lastOp' = Idle
    /\ UNCHANGED <<phase, accel_range, gyro_range, regs, last_set>>

Next ==
    \/ Construct
    \/ SetAccelRange
    \/ SetGyroRange
    \/ ReadWord
    \/ GetTemp
    \/ GetAccelData
    \/ GetGyroData
    \/ CalculateAngle
    \/ PollIteration
    \/ Return

Spec == Init /\ [][Next]_vars

---------------------------------------------------------------------------
(* read_i2c_word on every pair of bytes, on a driver constructed with the  *)
(* default ranges                                                          *)

InitWord ==
    /\ phase = "ready"
    /\ accel_range = "4g"
    /\ gyro_range = "500deg"
    /\ regs = [r \in ConfigRegisters |->
                 IF r = PWR_MGMT_1 THEN Some(0) ELSE Some(8)]
    /\ last_set = [accel |-> "4g", gyro |-> "500deg"]
    /\ lastOp = Idle

ReadWordAnyBytes ==
    /\ phase = "ready"
    /\ lastOp = Idle
    /\ \E hi, lo \in {None} \cup {Some(b) : b \in Byte} :
         LET r == read_i2c_word(TEMP_OUTH, hi, lo)
         IN  lastOp' = [Op("read_i2c_word") EXCEPT !.register = TEMP_OUTH,
                                                   !.outcome = r.outcome,
                                                   !.value = r.result,
                                                   !.reads = r.reads]
    /\ ReadFrame

NextWord ==
    \/ ReadWordAnyBytes
    \/ Return

SpecWord == InitWord /\ [][NextWord]_vars

---------------------------------------------------------------------------
(* Properties *)

\* the (register, value) pairs of a sequence of bus writes
Pairs(writes) == [i \in 1..Len(writes) |-> <<writes[i].reg, writes[i].val>>]

AllWritesOk(writes) == \A i \in 1..Len(writes) : writes[i].ok

AllReadsOk(reads) == \A i \in 1..Len(reads) : reads[i].resp # None

\* C1: after construction the code of the stored accelerometer range is the
\* value last successfully written to register 0x1C, and the code of the
\* stored gyroscope range is the value last successfully written to 0x1B.
C1_StoredRangeIsDeviceRange ==
    phase = "ready" =>
        /\ regs[ACCEL_CONFIG] = Some(ACCEL_RANGE_MAP[accel_range])
        /\ regs[GYRO_CONFIG] = Some(GYRO_RANGE_MAP[gyro_range])

\* what C2 says of one call of a set-range operation on a valid range, as
\* the claim states it: exactly two writes, 0x00 then the code
TwoWritesAlways(map, reg, stored, before) ==
    /\ Pairs(lastOp.writes) = << <<reg, 0>>, <<reg, map[lastOp.arg]>> >>
    /\ (lastOp.outcome = "ok") = AllWritesOk(lastOp.writes)
    /\ lastOp.outcome = "ok" => stored = lastOp.arg
    /\ lastOp.outcome # "ok" => lastOp.outcome = "OSError" /\ stored = before

\* C2 as stated: for every valid range set_accel_range (set_gyro_range)
\* issues exactly two bus writes to its own config register, 0x00 and then
\* the range's code, stores the range only when both succeeded, and fails
\* with the bus error and the stored range unchanged when one fails.
C2_ExactlyTwoWrites ==
    /\ (lastOp.name = "set_accel_range" /\ lastOp.arg \in DOMAIN ACCEL_RANGE_MAP)
         => TwoWritesAlways(ACCEL_RANGE_MAP, ACCEL_CONFIG, accel_range,
                            lastOp.accel_before)
    /\ (lastOp.name = "set_gyro_range" /\ lastOp.arg \in DOMAIN GYRO_RANGE_MAP)
         => TwoWritesAlways(GYRO_RANGE_MAP, GYRO_CONFIG, gyro_range,
                            lastOp.gyro_before)

\* the writes of a set-range call on a valid range: the write of 0x00, and
\* the write of the code exactly when the write of 0x00 succeeded
ClearThenCode(map, reg, stored, before) ==
    /\ Len(lastOp.writes) \in {1, 2}
    /\ Pairs(lastOp.writes) =
         SubSeq(<< <<reg, 0>>, <<reg, map[lastOp.arg]>> >>, 1, Len(lastOp.writes))
    /\ (Len(lastOp.writes) = 2) = lastOp.writes[1].ok
    /\ (lastOp.outcome = "ok") = (Len(lastOp.writes) = 2 /\ AllWritesOk(lastOp.writes))
    /\ lastOp.outcome = "ok" => stored = lastOp.arg
    /\ lastOp.outcome # "ok" => lastOp.outcome = "OSError" /\ stored = before

\* C2 amended: for every valid range set_accel_range (set_gyro_range) issues
\* the write of 0x00 to its own config register and, only when that write
\* succeeded, the write of the range's code to the same register: two
\* writes when the first succeeds, one when it fails.  The range is stored
\* only when both succeeded; when a write fails the call fails with the bus
\* error and the stored range is unchanged.
C2_ClearThenCode ==
    /\ (lastOp.name = "set_accel_range" /\ lastOp.arg \in DOMAIN ACCEL_RANGE_MAP)
         => /\ ClearThenCode(ACCEL_RANGE_MAP, ACCEL_CONFIG, accel_range,
                             lastOp.accel_before)
            /\ gyro_range = lastOp.gyro_before
    /\ (lastOp.name = "set_gyro_range" /\ lastOp.arg \in DOMAIN GYRO_RANGE_MAP)
         => /\ ClearThenCode(GYRO_RANGE_MAP, GYRO_CONFIG, gyro_range,
                             lastOp.gyro_before)
            /\ accel_range = lastOp.accel_before

\* C2 witness: a set_accel_range call on a valid range whose first write
\* failed; the stored range was another one
C2_Witness ==
    /\ lastOp.name = "set_accel_range"
    /\ lastOp.arg = "8g"
    /\ lastOp.accel_before = "16g"
    /\ Len(lastOp.writes) = 1
    /\ ~lastOp.writes[1].ok

\* C3: a set-range call with an argument that is not one of the four
\* supported values of its sub-sensor fails with ValueError, issues no bus
\* write and leaves both stored ranges unchanged; each of the four supported
\* values, the one with code 0x00 included, is not rejected.
C3_InvalidRangeRejected ==
    /\ lastOp.name = "set_accel_range" =>
         IF lastOp.arg \in {"2g", "4g", "8g", "16g"}
         THEN lastOp.outcome # "ValueError"
         ELSE /\ lastOp.outcome = "ValueError"
              /\ lastOp.writes = <<>>
              /\ regs = lastOp.regs_before
              /\ accel_range = lastOp.accel_before
              /\ gyro_range = lastOp.gyro_before
    /\ lastOp.name = "set_gyro_range" =>
         IF lastOp.arg \in {"250deg", "500deg", "1000deg", "2000deg"}
         THEN lastOp.outcome # "ValueError"
         ELSE /\ lastOp.outcome = "ValueError"
              /\ lastOp.writes = <<>>
              /\ regs = lastOp.regs_before
              /\ accel_range = lastOp.accel_before
              /\ gyro_range = lastOp.gyro_before

\* C3 witness: set_accel_range called with a gyroscope range while the
\* stored ranges are not the defaults
C3_Witness ==
    /\ lastOp.name = "set_accel_range"
    /\ lastOp.arg = "250deg"
    /\ lastOp.outcome = "ValueError"
    /\ accel_range = "2g"
    /\ gyro_range = "1000deg"

\* C4: the constructor's first bus transaction is the write of 0x00 to
\* 0x6B and every later one is a config-register write; when the wake-up
\* write fails construction fails and nothing else is written; when every
\* write succeeds the writes are (0x6B,0x00), (0x1C,0x00), (0x1C,0x08),
\* (0x1B,0x00), (0x1B,0x08) and the stored ranges are 4g and 500deg.
C4_ConstructorWrites ==
    lastOp.name = "__init__" =>
        /\ Len(lastOp.writes) >= 1
        /\ Pairs(lastOp.writes)[1] = <<107, 0>>
        /\ \A i \in 2..Len(lastOp.writes) : lastOp.writes[i].reg \in {28, 27}
        /\ ~lastOp.writes[1].ok =>
             /\ lastOp.outcome = "OSError"
             /\ phase = "failed"
             /\ Len(lastOp.writes) = 1
        /\ AllWritesOk(lastOp.writes) =>
             /\ lastOp.outcome = "ok"
             /\ phase = "ready"
             /\ Pairs(lastOp.writes) =
                  << <<107, 0>>, <<28, 0>>, <<28, 8>>, <<27, 0>>, <<27, 8>> >>
             /\ accel_range = "4g"
             /\ gyro_range = "500deg"

\* C4 witness: a construction in which every write succeeded
C4_Witness ==
    /\ lastOp.name = "__init__"
    /\ Len(lastOp.writes) = 5
    /\ AllWritesOk(lastOp.writes)
    /\ phase = "ready"

\* a vector with a component that is None
HasAbsent(v) == v.x = None \/ v.y = None \/ v.z = None

\* a vector of numbers, not all 0, with |y/magnitude| > 1
RatioOutOfDomain(v) ==
    /\ ~HasAbsent(v)
    /\ v # Vec(Some(0), Some(0), Some(0))
    /\ v.y[1] * v.y[1] > (v.x[1] * v.x[1]) + (v.y[1] * v.y[1]) + (v.z[1] * v.z[1])

\* C5: calculate_angle never raises: it returns a number or None, and None
\* when a component is None, when x = y = z = 0 and when y/magnitude is
\* outside [-1, 1]; so an iteration of the polling loop never ends with an
\* exception.
C5_AngleNeverRaises ==
    lastOp.name \in {"calculate_angle", "poll"} =>
        /\ lastOp.outcome = "ok"
        /\ \/ HasAbsent(lastOp.xyz_in)
           \/ lastOp.xyz_in = Vec(Some(0), Some(0), Some(0))
           \/ RatioOutOfDomain(lastOp.xyz_in)
           => lastOp.angle = None

\* C6: get_accel_data and get_gyro_data never raise; the vector returned has
\* x, y and z all present when every byte read succeeded and all absent when
\* a byte read failed (never some present and some absent, never 0 for a
\* failure).
C6_VectorAllOrNothing ==
    lastOp.name \in {"get_accel_data", "get_gyro_data"} =>
        /\ lastOp.outcome = "ok"
        /\ IF Len(lastOp.reads) = 6 /\ AllReadsOk(lastOp.reads)
           THEN /\ lastOp.xyz.x # None
                /\ lastOp.xyz.y # None
                /\ lastOp.xyz.z # None
           ELSE lastOp.xyz = Vec(None, None, None)

\* C6 witness: get_accel_data in which X and Z were read (X is not 0) and
\* the low byte of Y failed
C6_Witness ==
    /\ lastOp.name = "get_accel_data"
    /\ Len(lastOp.reads) = 6
    /\ lastOp.reads[1].resp = Some(255)
    /\ lastOp.reads[2].resp = Some(255)
    /\ lastOp.reads[4].resp = None
    /\ lastOp.reads[5].resp # None
    /\ lastOp.reads[6].resp # None
    /\ lastOp.xyz = Vec(None, None, None)

\* C7: when both byte reads succeed read_i2c_word returns the 16-bit two's
\* complement value of h*256 + l, which lies in -32768..32767.
C7_TwosComplement ==
    (/\ lastOp.name = "read_i2c_word"
     /\ Len(lastOp.reads) = 2
     /\ AllReadsOk(lastOp.reads)) =>
        LET h == lastOp.reads[1].resp[1]
            l == lastOp.reads[2].resp[1]
            v == (h * 256) + l
        IN  /\ lastOp.value = Some(IF v < 32768 THEN v ELSE v - 65536)
            /\ lastOp.value[1] \in -32768..32767
            /\ (h = 127 /\ l = 255) => lastOp.value = Some(32767)
            /\ (h = 128 /\ l = 0) => lastOp.value = Some(-32768)
            /\ (h = 255 /\ l = 255) => lastOp.value = Some(-1)
            /\ (h = 0 /\ l = 0) => lastOp.value = Some(0)

\* C7 witness: the bytes (0x80, 0x00) were read and gave -32768
C7_Witness ==
    /\ lastOp.name = "read_i2c_word"
    /\ lastOp.reads = <<Rd(65, Some(128)), Rd(66, Some(0))>>
    /\ lastOp.value = Some(-32768)

\* C8: when the word read of get_temp fails, get_temp ends as that
\* read_i2c_word call ended: the same outcome and the same failure marker.
C8_TempFailsLikeWordRead ==
    (lastOp.name = "get_temp" /\ lastOp.word.result = None) =>
        /\ lastOp.outcome = lastOp.word.outcome
        /\ lastOp.value = lastOp.word.result

\* C9: read_i2c_word(r) reads r and then r+1; the read of r+1 is issued
\* exactly when the read of r succeeded; when a read fails the result is
\* None (no number), and when both succeed it is a number.
C9_WordReadOrder ==
    lastOp.name = "read_i2c_word" =>
        /\ lastOp.outcome = "ok"
        /\ Len(lastOp.reads) \in {1, 2}
        /\ lastOp.reads[1].reg = lastOp.register
        /\ (Len(lastOp.reads) = 2) = (lastOp.reads[1].resp # None)
        /\ Len(lastOp.reads) = 2 => lastOp.reads[2].reg = lastOp.register + 1
        /\ (lastOp.value = None) = ~AllReadsOk(lastOp.reads)

\* C9 witness: the high byte was read and the read of the low byte failed
C9_Witness ==
    /\ lastOp.name = "read_i2c_word"
    /\ lastOp.register = 59
    /\ lastOp.reads = <<Rd(59, Some(255)), Rd(60, None)>>
    /\ lastOp.value = None

ReadOps ==
    {"read_i2c_word", "get_temp", "get_accel_data", "get_gyro_data",
     "calculate_angle", "poll"}

\* C10: a read operation issues no bus write and leaves the stored ranges
\* (and the device's configuration) as they were, whether it succeeds or
\* fails; the stored ranges are always those of the last set-range calls
\* that returned normally (the constructor's included).
C10_ReadsChangeNothing ==
    /\ lastOp.name \in ReadOps =>
         /\ lastOp.writes = <<>>
         /\ regs = lastOp.regs_before
         /\ accel_range = lastOp.accel_before
         /\ gyro_range = lastOp.gyro_before
    /\ phase = "ready" =>
         /\ accel_range = last_set.accel
         /\ gyro_range = last_set.gyro

\* C10 witness: get_temp failed (TypeError) on a driver whose ranges had
\* been set to 16g and 2000deg
C10_Witness ==
    /\ lastOp.name = "get_temp"
    /\ lastOp.outcome = "TypeError"
    /\ accel_range = "16g"
    /\ gyro_range = "2000deg"
    /\ last_set = [accel |-> "16g", gyro |-> "2000deg"]

====
